---- MODULE Spec2Model ----
(***************************************************************************)
(* The concurrent web scraper: cmd main, worker.Pool (NewPool, Start,      *)
(* worker, AddJobs), the time.Ticker used as the rate limiter, and         *)
(* HTTPScraper.Fetch with its retry loop.                                  *)
(*                                                                         *)
(* Time is discrete.  TimeAdvance lets one unit pass; a ticker whose tick  *)
(* is due sends it before time moves on, sleepers wake any time after      *)
(* their timer has run out.                                                *)
(***************************************************************************)
EXTENDS Integers, Sequences, FiniteSets, TLC

\* ---------------------------------------------------------------- bounds
MaxWorkers == 2
MaxJobs == 2
MaxRetriesBound == 3
MaxRetryDelay == 2
PoolMaxRetries == 1
PoolMaxRetryDelay == 0
MaxRateLimit == 1
MaxProxies == 2
MaxAgents == 2
MaxTimeout == 2

\* ------------------------------------------------------ program constants
StatusOK == 200
ServerError == 500
DefaultUserAgents == 3

VARIABLES
    cfg,            \* config.AppConfig: Scraper.Workers, RateLimit, MaxRetries, RetryDelay
                    \* and Proxies.Enabled, Rotate, List (ProxyList[i] = entry i parses),
                    \* len(Scraper.UserAgents), Browser.Enabled, Scraper.Timeout
    urls,           \* the job list read by URLReader.GetURLs; urls[j] = the URL parses
    mainPc,         \* position of main
    w_loop,         \* loop variable w of Pool.Start
    addI,           \* number of urls AddJobs has sent
    Jobs,           \* Pool.Jobs: buffered job indices
    jobsCap,        \* cap(Pool.Jobs)
    jobsClosed,     \* Pool.Jobs is closed
    Results,        \* Pool.Results: buffered Results
    resultsCap,     \* cap(Pool.Results)
    closeCount,     \* number of close(p.Results) executed
    WaitGroup,      \* counter of Pool.WaitGroup
    joinPc,         \* the goroutine of Start that waits and closes Results
    tickState,      \* rateLimiter: "none", "running", "stopped"
    tickRemaining,  \* time until the next tick is due
    tickBuf,        \* number of ticks waiting in rateLimiter.C (capacity 1)
    elapsed,        \* time since NewTicker while a tick can still be received, saturating
    admits,         \* elapsed at each receive from rateLimiter.C, in order
    ticksSent,      \* number of ticks the ticker has put in rateLimiter.C
    wpc,            \* position of each worker goroutine
    wjob,           \* the url (job index) a worker holds, 0 if none
    retries,        \* Fetch: retries
    lastErr,        \* Fetch: lastErr ("" is nil)
    statusCode,     \* Fetch: statusCode
    proxyUsed,      \* Fetch: proxyUsed, the index of a proxy in the list, 0 for ""
    transportProxy, \* Fetch: transport.Proxy, the index of a proxy, 0 if not set
    timer,          \* remaining time of a worker's time.Sleep, or of the deadline of its browser context
    wresult,        \* the Result Fetch returned to the worker
    pulled,         \* per job: how many times it was received from Jobs
    inflight,       \* per job: fetch attempts currently running
    jobHist,        \* per job: outcome of each attempt made, in order
    jobWaits,       \* per job: the duration passed to time.Sleep before each attempt
    jobSlept,       \* per job: time that passed while its Fetch was asleep
    emitted,        \* per job: number of Results sent on Pool.Results
    jobAdmits,      \* per job: receives from rateLimiter.C made for it
    jobProxies,     \* per job: transport.Proxy during each attempt made, in order
    reqAgent,       \* per worker: the user agent on the request of the latest attempt of
                    \* the Fetch call whose Result it has not sent yet, 0 if there is none
    errChan,        \* BrowserScraper.Fetch: errChan (capacity 1) of a worker's call
    taskPc,         \* BrowserScraper.Fetch: the goroutine that runs the browser tasks
    allResults,     \* main: allResults
    successCount,   \* main: successCount
    failureCount,   \* main: failureCount
    saved           \* number of SaveToFile calls

mainVars == <<mainPc, w_loop, addI, allResults, successCount, failureCount, saved>>
chanVars == <<Jobs, jobsCap, jobsClosed, Results, resultsCap, closeCount>>
joinVars == <<WaitGroup, joinPc>>
tickVars == <<tickState, tickRemaining, tickBuf, elapsed, admits, ticksSent>>
fetchVars == <<retries, lastErr, statusCode, proxyUsed, transportProxy, timer, wresult>>
workVars == <<wpc, wjob>>
ghostVars == <<pulled, inflight, jobHist, jobWaits, jobSlept, emitted, jobAdmits, jobProxies, reqAgent>>
browserVars == <<errChan, taskPc>>
vars == <<cfg, urls, browserVars, mainVars, chanVars, joinVars, tickVars, fetchVars,
          workVars, ghostVars>>

\* the jobs of a batch that shows the rate limiter at work: one more than
\* MaxJobs, so that the last admission is more than one interval after the first
GateJobs == MaxJobs + 1

WorkerIds == 1..MaxWorkers
JobIds == 1..GateJobs
k == Len(urls)

NoResult ==
    [URL |-> 0, Content |-> "", Err |-> "", Retries |-> 0, StatusCode |-> 0, ProxyUsed |-> 0]

Min(a, b) == IF a < b THEN a ELSE b

Max(a, b) == IF a > b THEN a ELSE b

\* how far the clock is followed in a batch of k jobs: the k - 1 intervals
\* that must pass before its last admission
Horizon == Max(0, (k - 1) * cfg.RateLimit)

RECURSIVE SumSeq(_)
SumSeq(s) == IF s = <<>> THEN 0 ELSE Head(s) + SumSeq(Tail(s))

\* the url lists of length n; an entry says whether http.NewRequest accepts the url
UrlLists == UNION {[1..n -> BOOLEAN] : n \in 0..MaxJobs}

\* the proxy lists of length n; an entry says whether url.Parse accepts it
ProxyLists == UNION {[1..n -> BOOLEAN] : n \in 0..MaxProxies}

\* the configurations main runs the pool with when no -config file is given:
\* what config.CreateDefault returns for the flags -workers, -rate-limit,
\* -retries and -browser, none of which main validates, with the default user
\* agents, Rotate set and an empty proxy list.  -retry-delay is 0: the waits
\* between attempts are followed where HTTPScraper.Fetch is called on its
\* own.  -proxy is left off: it sets Proxies.Enabled beside the empty list,
\* and Fetch and the proxy manager read Enabled only together with a
\* non-empty list
Configs ==
    [Workers : 0..MaxWorkers, RateLimit : 0..MaxRateLimit,
     MaxRetries : (-1)..PoolMaxRetries, RetryDelay : {0},
     ProxyEnabled : {FALSE}, Rotate : {TRUE}, ProxyList : {<<>>},
     UserAgents : {DefaultUserAgents}, BrowserEnabled : BOOLEAN, Timeout : {1}]

\* the configurations HTTPScraper.Fetch is called with on its own: every
\* retry budget the -retries flag or the config file carries (neither main
\* nor config.Load rejects a negative one) and every proxy setting, one user
\* agent
FetchConfigs ==
    [Workers : {1}, RateLimit : {1},
     MaxRetries : (-1)..MaxRetriesBound, RetryDelay : 0..MaxRetryDelay,
     ProxyEnabled : BOOLEAN, Rotate : BOOLEAN, ProxyList : ProxyLists,
     UserAgents : {1}, BrowserEnabled : {FALSE}, Timeout : {1}]

\* the configurations two workers call HTTPScraper.Fetch with at the same
\* time: proxies enabled, with and without rotation, one retry (so one
\* rotation) for each call after a delay of one
PairConfigs ==
    [Workers : {2}, RateLimit : {1},
     MaxRetries : {1}, RetryDelay : {1},
     ProxyEnabled : {TRUE}, Rotate : BOOLEAN, ProxyList : ProxyLists,
     UserAgents : {1}, BrowserEnabled : {FALSE}, Timeout : {1}]

\* the configurations HTTPScraper.Fetch is called with when the retry budget
\* is whatever the -retries flag or the config file carries: neither main nor
\* config.Load rejects a negative one
UncheckedConfigs ==
    [Workers : {1}, RateLimit : {1},
     MaxRetries : (-1)..MaxRetriesBound, RetryDelay : 0..MaxRetryDelay,
     ProxyEnabled : {FALSE}, Rotate : {TRUE}, ProxyList : {<<>>},
     UserAgents : {1}, BrowserEnabled : {FALSE}, Timeout : {1}]

\* the configurations HTTPScraper.Fetch is called with to follow the user
\* agent and the proxy of each attempt: every proxy setting, several agents
IdentityConfigs ==
    [Workers : {1}, RateLimit : {1},
     MaxRetries : 0..PoolMaxRetries, RetryDelay : 0..PoolMaxRetryDelay,
     ProxyEnabled : BOOLEAN, Rotate : BOOLEAN, ProxyList : ProxyLists,
     UserAgents : 1..MaxAgents, BrowserEnabled : {FALSE}, Timeout : {1}]

\* the configurations BrowserScraper.Fetch is called with on its own; the
\* timeout is 0 when a config file leaves it out, config.Load sets no default
BrowserConfigs ==
    [Workers : {1}, RateLimit : {1},
     MaxRetries : 0..PoolMaxRetries, RetryDelay : 0..PoolMaxRetryDelay,
     ProxyEnabled : {FALSE}, Rotate : {TRUE}, ProxyList : {<<>>},
     UserAgents : {1}, BrowserEnabled : {TRUE}, Timeout : 0..MaxTimeout]

\* the process is alive: main has not ended in log.Fatal or a panic of its
\* own, and the runtime has not yet exited for the panic of a worker
\* goroutine.  A panicking goroutine first runs its deferred calls; the other
\* goroutines keep running until the runtime exits.
Running ==
    /\ mainPc \notin {"panic", "fatal"}
    /\ \A w \in WorkerIds : wpc[w] # "dead"

\* scraper.New: the scraper the pool is built with
New == IF cfg.BrowserEnabled THEN "browser" ELSE "http"

InitCommon ==
    /\ w_loop = 1
    /\ addI = 0
    /\ Jobs = <<>>
    /\ jobsClosed = FALSE
    /\ Results = <<>>
    /\ closeCount = 0
    /\ WaitGroup = 0
    /\ joinPc = "none"
    /\ tickState = "none"
    /\ tickRemaining = 0
    /\ tickBuf = 0
    /\ elapsed = 0
    /\ admits = <<>>
    /\ ticksSent = 0
    /\ retries = [w \in WorkerIds |-> 0]
    /\ lastErr = [w \in WorkerIds |-> ""]
    /\ statusCode = [w \in WorkerIds |-> 0]
    /\ proxyUsed = [w \in WorkerIds |-> 0]
    /\ transportProxy = [w \in WorkerIds |-> 0]
    /\ timer = [w \in WorkerIds |-> 0]
    /\ wresult = [w \in WorkerIds |-> NoResult]
    /\ pulled = [j \in JobIds |-> 0]
    /\ inflight = [j \in JobIds |-> 0]
    /\ jobHist = [j \in JobIds |-> <<>>]
    /\ jobWaits = [j \in JobIds |-> <<>>]
    /\ jobSlept = [j \in JobIds |-> 0]
    /\ emitted = [j \in JobIds |-> 0]
    /\ jobAdmits = [j \in JobIds |-> 0]
    /\ jobProxies = [j \in JobIds |-> <<>>]
    /\ reqAgent = [w \in WorkerIds |-> 0]
    /\ errChan = [w \in WorkerIds |-> <<>>]
    /\ taskPc = [w \in WorkerIds |-> "none"]
    /\ allResults = <<>>
    /\ successCount = 0
    /\ failureCount = 0
    /\ saved = 0

\* the state of main after flag parsing and configuration loading
Init ==
    /\ InitCommon
    /\ cfg \in Configs
    /\ urls \in UrlLists
    /\ mainPc = "geturls"
    /\ jobsCap = 0
    /\ resultsCap = 0
    /\ wpc = [w \in WorkerIds |-> "unborn"]
    /\ wjob = [w \in WorkerIds |-> 0]

\* ------------------------------------------------------------------ main
\* a main that builds the pool without looking at len(urls)
MainGetURLsNoCheck ==
    /\ mainPc = "geturls"
    /\ Running
    /\ mainPc' = "newpool"
    /\ UNCHANGED <<cfg, urls, browserVars, w_loop, addI, allResults, successCount, failureCount, saved,
                   chanVars, joinVars, tickVars, fetchVars, workVars, ghostVars>>

\* main: len(urls) == 0 is fatal, otherwise the pool is built
MainGetURLs ==
    /\ mainPc = "geturls"
    /\ Running
    /\ mainPc' = IF k = 0 THEN "fatal" ELSE "newpool"
    /\ UNCHANGED <<cfg, urls, browserVars, w_loop, addI, allResults, successCount, failureCount, saved,
                   chanVars, joinVars, tickVars, fetchVars, workVars, ghostVars>>

\* a pool whose channels have room for one item less than the batch
NewPoolSmall ==
    /\ mainPc = "newpool"
    /\ Running
    /\ jobsCap' = k - 1
    /\ resultsCap' = k - 1
    /\ mainPc' = "start"
    /\ UNCHANGED <<cfg, urls, browserVars, w_loop, addI, allResults, successCount, failureCount, saved,
                   Jobs, jobsClosed, Results, closeCount,
                   joinVars, tickVars, fetchVars, workVars, ghostVars>>

\* NewPool: both channels are buffered with capacity len(urls)
NewPool ==
    /\ mainPc = "newpool"
    /\ Running
    /\ jobsCap' = k
    /\ resultsCap' = k
    /\ mainPc' = "start"
    /\ UNCHANGED <<cfg, urls, browserVars, w_loop, addI, allResults, successCount, failureCount, saved,
                   Jobs, jobsClosed, Results, closeCount,
                   joinVars, tickVars, fetchVars, workVars, ghostVars>>

\* Pool.Start, time.NewTicker: panics on a non-positive interval
StartNewTicker ==
    /\ mainPc = "start"
    /\ Running
    /\ IF cfg.RateLimit <= 0
         THEN /\ mainPc' = "panic"
              /\ UNCHANGED tickVars
         ELSE /\ mainPc' = "spawn"
              /\ tickState' = "running"
              /\ tickRemaining' = cfg.RateLimit
              /\ tickBuf' = 0
              /\ elapsed' = 0
              /\ UNCHANGED <<admits, ticksSent>>
    /\ UNCHANGED <<cfg, urls, browserVars, w_loop, addI, allResults, successCount, failureCount, saved,
                   chanVars, joinVars, fetchVars, workVars, ghostVars>>

\* a spawn loop that starts one worker more than configured
StartSpawnExtra ==
    /\ mainPc = "spawn"
    /\ Running
    /\ IF w_loop <= Min(cfg.Workers + 1, MaxWorkers)
         THEN /\ WaitGroup' = WaitGroup + 1
              /\ wpc' = [wpc EXCEPT ![w_loop] = "range"]
              /\ w_loop' = w_loop + 1
              /\ UNCHANGED <<mainPc, joinPc>>
         ELSE /\ joinPc' = "wait"
              /\ mainPc' = "stop"
              /\ UNCHANGED <<w_loop, WaitGroup, wpc>>
    /\ UNCHANGED <<cfg, urls, browserVars, addI, allResults, successCount, failureCount, saved,
                   chanVars, tickVars, fetchVars, wjob, ghostVars>>

\* Pool.Start, one iteration of the worker loop: WaitGroup.Add(1); go p.worker(w, ...)
StartSpawn ==
    /\ mainPc = "spawn"
    /\ Running
    /\ IF w_loop <= cfg.Workers
         THEN /\ WaitGroup' = WaitGroup + 1
              /\ wpc' = [wpc EXCEPT ![w_loop] = "range"]
              /\ w_loop' = w_loop + 1
              /\ UNCHANGED <<mainPc, joinPc>>
         ELSE /\ joinPc' = "wait"
              /\ mainPc' = "stop"
              /\ UNCHANGED <<w_loop, WaitGroup, wpc>>
    /\ UNCHANGED <<cfg, urls, browserVars, addI, allResults, successCount, failureCount, saved,
                   chanVars, tickVars, fetchVars, wjob, ghostVars>>

\* Pool.Start returns: the deferred rateLimiter.Stop() runs.  No tick is sent
\* after Stop.  A tick already in the channel stays there with asynchronous
\* timer channels and is discarded with synchronous ones (Go 1.23).
StartReturn ==
    /\ mainPc = "stop"
    /\ Running
    /\ tickState' = "stopped"
    /\ tickBuf' \in {tickBuf, 0}
    /\ tickRemaining' = 0
    /\ mainPc' = "addjobs"
    /\ UNCHANGED <<elapsed, admits, ticksSent>>
    /\ UNCHANGED <<cfg, urls, browserVars, w_loop, addI, allResults, successCount, failureCount, saved,
                   chanVars, joinVars, fetchVars, workVars, ghostVars>>

\* Pool.AddJobs: p.Jobs <- url for each url, then close(p.Jobs)
AddJobs ==
    /\ mainPc = "addjobs"
    /\ Running
    /\ IF addI < k
         THEN /\ Len(Jobs) < jobsCap
              /\ Jobs' = Append(Jobs, addI + 1)
              /\ addI' = addI + 1
              /\ UNCHANGED <<jobsClosed, mainPc>>
         ELSE /\ jobsClosed' = TRUE
              /\ mainPc' = "collect"
              /\ UNCHANGED <<Jobs, addI>>
    /\ UNCHANGED <<cfg, urls, browserVars, w_loop, allResults, successCount, failureCount, saved,
                   jobsCap, Results, resultsCap, closeCount,
                   joinVars, tickVars, fetchVars, workVars, ghostVars>>

\* main: for result := range pool.Results, one iteration or the end of the loop
Collect ==
    /\ mainPc = "collect"
    /\ Running
    /\ IF Results # <<>>
         THEN /\ allResults' = Append(allResults, Head(Results))
              /\ Results' = Tail(Results)
              /\ IF Head(Results).Err # ""
                   THEN /\ failureCount' = failureCount + 1
                        /\ UNCHANGED successCount
                   ELSE /\ successCount' = successCount + 1
                        /\ UNCHANGED failureCount
              /\ UNCHANGED mainPc
         ELSE /\ closeCount > 0
              /\ mainPc' = "save"
              /\ UNCHANGED <<allResults, Results, successCount, failureCount>>
    /\ UNCHANGED <<cfg, urls, browserVars, w_loop, addI, saved,
                   Jobs, jobsCap, jobsClosed, resultsCap, closeCount,
                   joinVars, tickVars, fetchVars, workVars, ghostVars>>

\* main: resultWriter.SaveToFile(allResults); the output file is written, or
\* it cannot be written and the error is fatal
SaveToFile ==
    /\ mainPc = "save"
    /\ Running
    /\ saved' = saved + 1
    /\ mainPc' \in {"done", "fatal"}
    /\ UNCHANGED <<cfg, urls, browserVars, w_loop, addI, allResults, successCount, failureCount,
                   chanVars, joinVars, tickVars, fetchVars, workVars, ghostVars>>

\* ------------------------------------------- the inline pool of src/main.go
\* main of src/main.go: len(urls) == 0 is fatal, otherwise the channels are made
InlineGetURLs ==
    /\ mainPc = "inline_geturls"
    /\ Running
    /\ mainPc' = IF k = 0 THEN "fatal" ELSE "inline_make"
    /\ UNCHANGED <<cfg, urls, browserVars, w_loop, addI, allResults, successCount, failureCount, saved,
                   chanVars, joinVars, tickVars, fetchVars, workVars, ghostVars>>

\* main of src/main.go: jobs and results are buffered with capacity len(urls)
InlineMake ==
    /\ mainPc = "inline_make"
    /\ Running
    /\ jobsCap' = k
    /\ resultsCap' = k
    /\ mainPc' = "inline_ticker"
    /\ UNCHANGED <<cfg, urls, browserVars, w_loop, addI, allResults, successCount, failureCount, saved,
                   Jobs, jobsClosed, Results, closeCount,
                   joinVars, tickVars, fetchVars, workVars, ghostVars>>

\* main of src/main.go, time.NewTicker: panics on a non-positive interval.
\* The deferred rateLimiter.Stop() is main's own and runs when main returns.
InlineNewTicker ==
    /\ mainPc = "inline_ticker"
    /\ Running
    /\ IF cfg.RateLimit <= 0
         THEN /\ mainPc' = "panic"
              /\ UNCHANGED tickVars
         ELSE /\ mainPc' = "inline_spawn"
              /\ tickState' = "running"
              /\ tickRemaining' = cfg.RateLimit
              /\ tickBuf' = 0
              /\ elapsed' = 0
              /\ UNCHANGED <<admits, ticksSent>>
    /\ UNCHANGED <<cfg, urls, browserVars, w_loop, addI, allResults, successCount, failureCount, saved,
                   chanVars, joinVars, fetchVars, workVars, ghostVars>>

\* main of src/main.go, one iteration of the worker loop: wg.Add(1); go worker(...)
InlineSpawn ==
    /\ mainPc = "inline_spawn"
    /\ Running
    /\ IF w_loop <= cfg.Workers
         THEN /\ WaitGroup' = WaitGroup + 1
              /\ wpc' = [wpc EXCEPT ![w_loop] = "range"]
              /\ w_loop' = w_loop + 1
              /\ UNCHANGED mainPc
         ELSE /\ mainPc' = "inline_send"
              /\ UNCHANGED <<w_loop, WaitGroup, wpc>>
    /\ UNCHANGED <<cfg, urls, browserVars, addI, allResults, successCount, failureCount, saved,
                   chanVars, joinPc, tickVars, fetchVars, wjob, ghostVars>>

\* main of src/main.go: jobs <- url for each url, close(jobs), and then the
\* goroutine that waits for the workers and closes results is started
InlineSend ==
    /\ mainPc = "inline_send"
    /\ Running
    /\ IF addI < k
         THEN /\ Len(Jobs) < jobsCap
              /\ Jobs' = Append(Jobs, addI + 1)
              /\ addI' = addI + 1
              /\ UNCHANGED <<jobsClosed, mainPc, joinPc>>
         ELSE /\ jobsClosed' = TRUE
              /\ joinPc' = "wait"
              /\ mainPc' = "collect"
              /\ UNCHANGED <<Jobs, addI>>
    /\ UNCHANGED <<cfg, urls, browserVars, w_loop, allResults, successCount, failureCount, saved,
                   jobsCap, Results, resultsCap, closeCount,
                   WaitGroup, tickVars, fetchVars, workVars, ghostVars>>

\* main of src/main.go returns after saving: the deferred rateLimiter.Stop() runs
InlineReturn ==
    /\ mainPc = "done"
    /\ Running
    /\ tickState = "running"
    /\ tickState' = "stopped"
    /\ tickBuf' \in {tickBuf, 0}
    /\ tickRemaining' = 0
    /\ mainPc' = "returned"
    /\ UNCHANGED <<elapsed, admits, ticksSent>>
    /\ UNCHANGED <<cfg, urls, browserVars, w_loop, addI, allResults, successCount, failureCount, saved,
                   chanVars, joinVars, fetchVars, workVars, ghostVars>>

\* ------------------------------------------------------- the join goroutine
\* a join goroutine that closes the results without waiting for the workers
JoinCloseNoWait ==
    /\ joinPc = "wait"
    /\ Running
    /\ closeCount' = closeCount + 1
    /\ joinPc' = "done"
    /\ UNCHANGED <<cfg, urls, browserVars, mainVars, Jobs, jobsCap, jobsClosed, Results, resultsCap,
                   WaitGroup, tickVars, fetchVars, workVars, ghostVars>>

\* p.WaitGroup.Wait(); close(p.Results)
JoinClose ==
    /\ joinPc = "wait"
    /\ Running
    /\ WaitGroup = 0
    /\ closeCount' = closeCount + 1
    /\ joinPc' = "done"
    /\ UNCHANGED <<cfg, urls, browserVars, mainVars, Jobs, jobsCap, jobsClosed, Results, resultsCap,
                   WaitGroup, tickVars, fetchVars, workVars, ghostVars>>

\* ---------------------------------------------------------------- ticker
\* the runtime sends a due tick; it is dropped when the channel is full
TickerSend ==
    /\ tickState = "running"
    /\ Running
    /\ tickRemaining = 0
    /\ tickBuf' = 1
    /\ ticksSent' = IF tickBuf = 0 THEN ticksSent + 1 ELSE ticksSent
    /\ tickRemaining' = cfg.RateLimit
    /\ UNCHANGED <<tickState, elapsed, admits>>
    /\ UNCHANGED <<cfg, urls, browserVars, mainVars, chanVars, joinVars, fetchVars, workVars, ghostVars>>

\* one unit of time passes
TimeAdvance ==
    /\ ~(tickState = "running" /\ tickRemaining = 0)
    /\ Running
    /\ tickRemaining' = IF tickState = "running" THEN tickRemaining - 1 ELSE tickRemaining
    /\ elapsed' = IF tickState = "running" \/ tickBuf = 1
                     THEN Min(elapsed + 1, Horizon) ELSE elapsed
    /\ timer' = [w \in WorkerIds |-> IF timer[w] > 0 THEN timer[w] - 1 ELSE 0]
    /\ jobSlept' = [j \in JobIds |->
                      IF \E w \in WorkerIds : wjob[w] = j /\ wpc[w] = "sleep" /\ timer[w] > 0
                        THEN jobSlept[j] + 1 ELSE jobSlept[j]]
    /\ UNCHANGED <<tickState, tickBuf, admits, ticksSent>>
    /\ UNCHANGED <<cfg, urls, browserVars, mainVars, chanVars, joinVars,
                   retries, lastErr, statusCode, proxyUsed, transportProxy, wresult,
                   workVars, pulled, inflight, jobHist, jobWaits, emitted,
                   jobAdmits, jobProxies, reqAgent>>

\* ---------------------------------------------------------------- worker
\* a receive from the jobs channel that leaves the job in the channel
WorkerRangePeek(w) ==
    /\ wpc[w] = "range"
    /\ Running
    /\ IF Jobs # <<>>
         THEN /\ wjob' = [wjob EXCEPT ![w] = Head(Jobs)]
              /\ pulled' = [pulled EXCEPT ![Head(Jobs)] = @ + 1]
              /\ wpc' = [wpc EXCEPT ![w] = "gate"]
              /\ UNCHANGED <<Jobs, WaitGroup>>
         ELSE /\ jobsClosed
              /\ WaitGroup' = WaitGroup - 1
              /\ wpc' = [wpc EXCEPT ![w] = "exited"]
              /\ UNCHANGED <<wjob, Jobs, pulled>>
    /\ UNCHANGED <<cfg, urls, browserVars, mainVars, jobsCap, jobsClosed, Results, resultsCap, closeCount,
                   joinPc, tickVars, fetchVars, inflight, jobHist, jobWaits, jobSlept, emitted,
                   jobAdmits, jobProxies, reqAgent>>

\* Pool.worker: for url := range p.Jobs; at the end of the loop the deferred
\* p.WaitGroup.Done() runs
WorkerRange(w) ==
    /\ wpc[w] = "range"
    /\ Running
    /\ IF Jobs # <<>>
         THEN /\ wjob' = [wjob EXCEPT ![w] = Head(Jobs)]
              /\ Jobs' = Tail(Jobs)
              /\ pulled' = [pulled EXCEPT ![Head(Jobs)] = @ + 1]
              /\ wpc' = [wpc EXCEPT ![w] = "gate"]
              /\ UNCHANGED WaitGroup
         ELSE /\ jobsClosed
              /\ WaitGroup' = WaitGroup - 1
              /\ wpc' = [wpc EXCEPT ![w] = "exited"]
              /\ UNCHANGED <<wjob, Jobs, pulled>>
    /\ UNCHANGED <<cfg, urls, browserVars, mainVars, jobsCap, jobsClosed, Results, resultsCap, closeCount,
                   joinPc, tickVars, fetchVars, inflight, jobHist, jobWaits, jobSlept, emitted,
                   jobAdmits, jobProxies, reqAgent>>

\* a worker that calls Fetch without waiting for the rate limiter
WorkerGateNoWait(w) ==
    /\ wpc[w] = "gate"
    /\ Running
    /\ admits' = Append(admits, elapsed)
    /\ jobAdmits' = [jobAdmits EXCEPT ![wjob[w]] = @ + 1]
    /\ wpc' = [wpc EXCEPT ![w] = "fetch"]
    /\ UNCHANGED <<tickState, tickRemaining, tickBuf, elapsed, ticksSent>>
    /\ UNCHANGED <<cfg, urls, browserVars, mainVars, chanVars, joinVars, fetchVars, wjob,
                   pulled, inflight, jobHist, jobWaits, jobSlept, emitted, jobProxies, reqAgent>>

\* a receive from rateLimiter.C that leaves the tick in the channel
WorkerGateKeepTick(w) ==
    /\ wpc[w] = "gate"
    /\ Running
    /\ tickBuf = 1
    /\ admits' = Append(admits, elapsed)
    /\ jobAdmits' = [jobAdmits EXCEPT ![wjob[w]] = @ + 1]
    /\ wpc' = [wpc EXCEPT ![w] = "fetch"]
    /\ UNCHANGED <<tickState, tickRemaining, tickBuf, elapsed, ticksSent>>
    /\ UNCHANGED <<cfg, urls, browserVars, mainVars, chanVars, joinVars, fetchVars, wjob,
                   pulled, inflight, jobHist, jobWaits, jobSlept, emitted, jobProxies, reqAgent>>

\* Pool.worker: <-rateLimiter.C, then p.Scraper.Fetch(url) is called
WorkerGate(w) ==
    /\ wpc[w] = "gate"
    /\ Running
    /\ tickBuf = 1
    /\ tickBuf' = 0
    /\ admits' = Append(admits, elapsed)
    /\ jobAdmits' = [jobAdmits EXCEPT ![wjob[w]] = @ + 1]
    /\ wpc' = [wpc EXCEPT ![w] = "fetch"]
    /\ UNCHANGED <<tickState, tickRemaining, elapsed, ticksSent>>
    /\ UNCHANGED <<cfg, urls, browserVars, mainVars, chanVars, joinVars, fetchVars, wjob,
                   pulled, inflight, jobHist, jobWaits, jobSlept, emitted, jobProxies, reqAgent>>

\* HTTPScraper.Fetch: the locals declared at its head are zero
FetchEnter(w) ==
    /\ retries' = [retries EXCEPT ![w] = 0]
    /\ lastErr' = [lastErr EXCEPT ![w] = ""]
    /\ statusCode' = [statusCode EXCEPT ![w] = 0]

\* a proxy selection that samples the whole list whether or not Rotate is set
GetProxyURLAnyEntry == 1..Len(cfg.ProxyList)

\* Manager.GetProxyURL: the entries of Proxies.List it can select, for a
\* non-empty list of an enabled configuration: the first one, or any one when
\* Rotate is set and there is more than one (rand.Intn)
GetProxyURL ==
    IF cfg.Rotate /\ Len(cfg.ProxyList) > 1 THEN 1..Len(cfg.ProxyList) ELSE {1}

\* HTTPScraper.Fetch up to the retry loop: a fresh transport, and with proxies
\* enabled and configured ApplyToTransport, whose error ends Fetch with a
\* Result that has only URL and Err
FetchStart(w) ==
    /\ wpc[w] = "fetch"
    /\ Running
    /\ New = "http"
    /\ FetchEnter(w)
    /\ IF cfg.ProxyEnabled /\ Len(cfg.ProxyList) > 0
         THEN \E i \in GetProxyURL :
                IF cfg.ProxyList[i]
                  THEN /\ transportProxy' = [transportProxy EXCEPT ![w] = i]
                       /\ proxyUsed' = [proxyUsed EXCEPT ![w] = i]
                       /\ wpc' = [wpc EXCEPT ![w] = "loop"]
                       /\ UNCHANGED wresult
                  ELSE /\ transportProxy' = [transportProxy EXCEPT ![w] = 0]
                       /\ proxyUsed' = [proxyUsed EXCEPT ![w] = 0]
                       /\ wresult' = [wresult EXCEPT ![w] =
                                        [NoResult EXCEPT !.URL = wjob[w], !.Err = "proxy"]]
                       /\ wpc' = [wpc EXCEPT ![w] = "send"]
         ELSE /\ transportProxy' = [transportProxy EXCEPT ![w] = 0]
              /\ proxyUsed' = [proxyUsed EXCEPT ![w] = 0]
              /\ wpc' = [wpc EXCEPT ![w] = "loop"]
              /\ UNCHANGED wresult
    /\ UNCHANGED <<cfg, urls, browserVars, mainVars, chanVars, joinVars, tickVars, timer, wjob, ghostVars>>

\* a retry loop that runs one attempt too many
LoopContinuesLoose(n, max) == n <= max + 1

\* HTTPScraper.Fetch: for retries <= s.Config.Scraper.MaxRetries
LoopContinues(n, max) == n <= max

\* a backoff that does not grow
RetryWaitFlat(d, n) == d

\* HTTPScraper.Fetch: retryWait := RetryDelay * time.Duration(retries)
RetryWait(d, n) == d * n

\* HTTPScraper.Fetch: the Result returned when all retries failed
FailureResult(w) ==
    [URL |-> wjob[w], Content |-> "", Err |-> lastErr[w],
     Retries |-> retries[w], StatusCode |-> statusCode[w], ProxyUsed |-> proxyUsed[w]]

\* HTTPScraper.Fetch: the Result returned by the attempt that succeeded
SuccessResult(w) ==
    [URL |-> wjob[w], Content |-> "html", Err |-> "",
     Retries |-> retries[w], StatusCode |-> StatusOK, ProxyUsed |-> proxyUsed[w]]

\* HTTPScraper.Fetch: the head of the retry loop.  A retry starts its sleep,
\* the first attempt starts at once, an exhausted budget returns the failure.
\* The failure return calls lastErr.Error(), which panics on a nil lastErr.
FetchLoop(w) ==
    /\ wpc[w] = "loop"
    /\ Running
    /\ IF LoopContinues(retries[w], cfg.MaxRetries)
         THEN IF retries[w] > 0
                THEN /\ timer' = [timer EXCEPT ![w] = RetryWait(cfg.RetryDelay, retries[w])]
                     /\ jobWaits' = [jobWaits EXCEPT ![wjob[w]] =
                                       Append(@, RetryWait(cfg.RetryDelay, retries[w]))]
                     /\ wpc' = [wpc EXCEPT ![w] = "sleep"]
                     /\ UNCHANGED <<inflight, wresult>>
                ELSE /\ jobWaits' = [jobWaits EXCEPT ![wjob[w]] = Append(@, 0)]
                     /\ inflight' = [inflight EXCEPT ![wjob[w]] = @ + 1]
                     /\ wpc' = [wpc EXCEPT ![w] = "attempt"]
                     /\ UNCHANGED <<timer, wresult>>
         ELSE /\ IF lastErr[w] = ""
                   THEN /\ wpc' = [wpc EXCEPT ![w] = "nilpanic"]
                        /\ UNCHANGED wresult
                   ELSE /\ wresult' = [wresult EXCEPT ![w] = FailureResult(w)]
                        /\ wpc' = [wpc EXCEPT ![w] = "send"]
              /\ UNCHANGED <<timer, jobWaits, inflight>>
    /\ UNCHANGED <<cfg, urls, browserVars, mainVars, chanVars, joinVars, tickVars,
                   retries, lastErr, statusCode, proxyUsed, transportProxy,
                   wjob, pulled, jobHist, jobSlept, emitted, jobAdmits, jobProxies, reqAgent>>

\* a rotation on a transport that all Fetch calls of the scraper share
FetchWakeSharedTransport(w) ==
    /\ wpc[w] = "sleep"
    /\ Running
    /\ timer[w] = 0
    /\ IF cfg.ProxyEnabled /\ cfg.Rotate /\ Len(cfg.ProxyList) > 1
         THEN \E i \in GetProxyURL :
                IF cfg.ProxyList[i]
                  THEN /\ transportProxy' = [v \in WorkerIds |-> i]
                       /\ proxyUsed' = [proxyUsed EXCEPT ![w] = i]
                  ELSE /\ proxyUsed' = [proxyUsed EXCEPT ![w] = 0]
                       /\ UNCHANGED transportProxy
         ELSE UNCHANGED <<proxyUsed, transportProxy>>
    /\ inflight' = [inflight EXCEPT ![wjob[w]] = @ + 1]
    /\ wpc' = [wpc EXCEPT ![w] = "attempt"]
    /\ UNCHANGED <<cfg, urls, browserVars, mainVars, chanVars, joinVars, tickVars,
                   retries, lastErr, statusCode, timer, wresult,
                   wjob, pulled, jobHist, jobWaits, jobSlept, emitted, jobAdmits, jobProxies, reqAgent>>

\* HTTPScraper.Fetch: time.Sleep(retryWait) returns, the proxy is rotated if
\* rotation applies, and the attempt starts.  The error of ApplyToTransport
\* is dropped here: proxyUsed becomes "" and the transport keeps its proxy.
FetchWake(w) ==
    /\ wpc[w] = "sleep"
    /\ Running
    /\ timer[w] = 0
    /\ IF cfg.ProxyEnabled /\ cfg.Rotate /\ Len(cfg.ProxyList) > 1
         THEN \E i \in GetProxyURL :
                IF cfg.ProxyList[i]
                  THEN /\ transportProxy' = [transportProxy EXCEPT ![w] = i]
                       /\ proxyUsed' = [proxyUsed EXCEPT ![w] = i]
                  ELSE /\ proxyUsed' = [proxyUsed EXCEPT ![w] = 0]
                       /\ UNCHANGED transportProxy
         ELSE UNCHANGED <<proxyUsed, transportProxy>>
    /\ inflight' = [inflight EXCEPT ![wjob[w]] = @ + 1]
    /\ wpc' = [wpc EXCEPT ![w] = "attempt"]
    /\ UNCHANGED <<cfg, urls, browserVars, mainVars, chanVars, joinVars, tickVars,
                   retries, lastErr, statusCode, timer, wresult,
                   wjob, pulled, jobHist, jobWaits, jobSlept, emitted, jobAdmits, jobProxies, reqAgent>>

\* what one attempt for job j can come to: http.NewRequest fails on a url that
\* does not parse; otherwise client.Do fails, the status is not 200, the
\* document cannot be read, or the attempt succeeds
Outcomes(j) ==
    IF urls[j] THEN {"transport", "status", "decode", "ok"} ELSE {"newreq"}

\* HTTPScraper.Fetch: the user agent an attempt for job j can put on its
\* request, 0 for none: http.NewRequest failed, or the list is empty
UserAgentPick(j) ==
    IF urls[j] /\ cfg.UserAgents > 0 THEN 1..cfg.UserAgents ELSE {0}

\* statusCode after an attempt: assigned only when a response arrived
StatusAfter(old, o) ==
    CASE o = "status" -> ServerError
      [] o \in {"decode", "ok"} -> StatusOK
      [] OTHER -> old

\* a loop body that gives up at once on a non-200 status
FetchAttemptNoRetryOnStatus(w) ==
    /\ wpc[w] = "attempt"
    /\ Running
    /\ \E o \in Outcomes(wjob[w]) :
         /\ jobHist' = [jobHist EXCEPT ![wjob[w]] = Append(@, o)]
         /\ jobProxies' = [jobProxies EXCEPT ![wjob[w]] = Append(@, transportProxy[w])]
         /\ \E ua \in UserAgentPick(wjob[w]) :
               reqAgent' = [reqAgent EXCEPT ![w] = ua]
         /\ statusCode' = [statusCode EXCEPT ![w] = StatusAfter(@, o)]
         /\ IF o = "ok"
              THEN /\ wresult' = [wresult EXCEPT ![w] = SuccessResult(w)]
                   /\ wpc' = [wpc EXCEPT ![w] = "send"]
                   /\ UNCHANGED <<retries, lastErr>>
              ELSE /\ lastErr' = [lastErr EXCEPT ![w] = o]
                   /\ retries' = [retries EXCEPT ![w] = @ + 1]
                   /\ IF o = "status"
                        THEN /\ wresult' = [wresult EXCEPT ![w] =
                                  [FailureResult(w) EXCEPT !.Err = o, !.Retries = @ + 1,
                                                           !.StatusCode = ServerError]]
                             /\ wpc' = [wpc EXCEPT ![w] = "send"]
                        ELSE /\ wpc' = [wpc EXCEPT ![w] = "loop"]
                             /\ UNCHANGED wresult
    /\ inflight' = [inflight EXCEPT ![wjob[w]] = @ - 1]
    /\ UNCHANGED <<cfg, urls, browserVars, mainVars, chanVars, joinVars, tickVars, timer,
                   proxyUsed, transportProxy,
                   wjob, pulled, jobWaits, jobSlept, emitted, jobAdmits>>

\* HTTPScraper.Fetch: one pass of the loop body from http.NewRequest on
FetchAttempt(w) ==
    /\ wpc[w] = "attempt"
    /\ Running
    /\ \E o \in Outcomes(wjob[w]) :
         /\ jobHist' = [jobHist EXCEPT ![wjob[w]] = Append(@, o)]
         /\ jobProxies' = [jobProxies EXCEPT ![wjob[w]] = Append(@, transportProxy[w])]
         /\ \E ua \in UserAgentPick(wjob[w]) :
               reqAgent' = [reqAgent EXCEPT ![w] = ua]
         /\ statusCode' = [statusCode EXCEPT ![w] = StatusAfter(@, o)]
         /\ IF o = "ok"
              THEN /\ wresult' = [wresult EXCEPT ![w] = SuccessResult(w)]
                   /\ wpc' = [wpc EXCEPT ![w] = "send"]
                   /\ UNCHANGED <<retries, lastErr>>
              ELSE /\ lastErr' = [lastErr EXCEPT ![w] = o]
                   /\ retries' = [retries EXCEPT ![w] = @ + 1]
                   /\ wpc' = [wpc EXCEPT ![w] = "loop"]
                   /\ UNCHANGED wresult
    /\ inflight' = [inflight EXCEPT ![wjob[w]] = @ - 1]
    /\ UNCHANGED <<cfg, urls, browserVars, mainVars, chanVars, joinVars, tickVars, timer,
                   proxyUsed, transportProxy,
                   wjob, pulled, jobWaits, jobSlept, emitted, jobAdmits>>

\* ---------------------------------------------------- BrowserScraper.Fetch
\* BrowserScraper.Fetch up to the select: the context with its deadline, the
\* error channel, and the goroutine that runs the browser tasks
BrowserStart(w) ==
    /\ wpc[w] = "fetch"
    /\ Running
    /\ New = "browser"
    /\ timer' = [timer EXCEPT ![w] = cfg.Timeout]
    /\ errChan' = [errChan EXCEPT ![w] = <<>>]
    /\ taskPc' = [taskPc EXCEPT ![w] = "run"]
    /\ statusCode' = [statusCode EXCEPT ![w] = 0]
    /\ inflight' = [inflight EXCEPT ![wjob[w]] = @ + 1]
    /\ wpc' = [wpc EXCEPT ![w] = "select"]
    /\ UNCHANGED <<cfg, urls, mainVars, chanVars, joinVars, tickVars,
                   retries, lastErr, proxyUsed, transportProxy, wresult, wjob,
                   pulled, jobHist, jobWaits, jobSlept, emitted, jobAdmits,
                   jobProxies, reqAgent>>

\* what chromedp.Run returns before the deadline: nil or the error of a task
\* (always an error for a url that cannot be navigated to)
EarlyOutcomes(w) == IF urls[wjob[w]] THEN {"nil", "run"} ELSE {"run"}

\* what the task goroutine sends on errChan.  Before the deadline it is what
\* chromedp.Run returned.  At or after the deadline it is the error of the
\* expired context, or what Run returned before the deadline: the send is a
\* step of its own after Run has returned, and the deadline can pass between
\* the two.  With a context that is born expired (Timeout = 0) Run never
\* returns nil: it returns the error of the context, or the error of a browser
\* that could not be launched, which is reported before the context is looked at.
RunOutcomes(w) ==
    IF timer[w] > 0 THEN EarlyOutcomes(w)
    ELSE IF cfg.Timeout > 0 THEN EarlyOutcomes(w) \cup {"deadline"}
    ELSE {"deadline", "run"}

\* the goroutine of BrowserScraper.Fetch: errChan <- chromedp.Run(...)
BrowserTask(w) ==
    /\ taskPc[w] = "run"
    /\ Running
    /\ \E o \in RunOutcomes(w) : errChan' = [errChan EXCEPT ![w] = <<o>>]
    /\ taskPc' = [taskPc EXCEPT ![w] = "done"]
    /\ UNCHANGED <<cfg, urls, mainVars, chanVars, joinVars, tickVars, fetchVars,
                   workVars, ghostVars>>

\* BrowserScraper.Fetch from the receive of a nil error on: the goquery
\* document, whose error is returned together with the html, or the success
BrowserFinish(w, o) ==
    /\ o \in {"ok", "decode"}
    /\ wresult' = [wresult EXCEPT ![w] =
                     [NoResult EXCEPT !.URL = wjob[w], !.Content = "html",
                                      !.Err = IF o = "ok" THEN "" ELSE o,
                                      !.StatusCode = statusCode[w]]]

\* BrowserScraper.Fetch: the select on errChan and ctx.Done() and the rest of
\* the function.  When both are ready either case can run.  On return the
\* deferred cancel() runs; a task goroutine still running then sends into the
\* abandoned errChan and ends.
BrowserSelect(w) ==
    /\ wpc[w] = "select"
    /\ Running
    /\ \/ /\ errChan[w] # <<>>
          /\ errChan' = [errChan EXCEPT ![w] = <<>>]
          /\ IF Head(errChan[w]) = "nil"
               THEN \E o \in {"ok", "decode"} :
                      /\ BrowserFinish(w, o)
                      /\ jobHist' = [jobHist EXCEPT ![wjob[w]] = Append(@, o)]
               ELSE /\ wresult' = [wresult EXCEPT ![w] =
                                     [NoResult EXCEPT !.URL = wjob[w],
                                                      !.Err = Head(errChan[w])]]
                    /\ jobHist' = [jobHist EXCEPT ![wjob[w]] = Append(@, Head(errChan[w]))]
       \/ /\ timer[w] = 0
          /\ wresult' = [wresult EXCEPT ![w] =
                           [NoResult EXCEPT !.URL = wjob[w], !.Err = "browser timeout"]]
          /\ jobHist' = [jobHist EXCEPT ![wjob[w]] = Append(@, "browser timeout")]
          /\ UNCHANGED errChan
    /\ taskPc' = [taskPc EXCEPT ![w] = "none"]
    /\ inflight' = [inflight EXCEPT ![wjob[w]] = @ - 1]
    /\ wpc' = [wpc EXCEPT ![w] = "send"]
    /\ UNCHANGED <<cfg, urls, mainVars, chanVars, joinVars, tickVars,
                   retries, lastErr, statusCode, proxyUsed, transportProxy, timer, wjob,
                   pulled, jobWaits, jobSlept, emitted, jobAdmits, jobProxies, reqAgent>>

\* Pool.worker: p.Results <- result.  A send on a closed channel panics, and
\* the deferred WaitGroup.Done() runs as the panic unwinds the worker.
WorkerSend(w) ==
    /\ wpc[w] = "send"
    /\ Running
    /\ IF closeCount > 0
         THEN /\ wpc' = [wpc EXCEPT ![w] = "panic"]
              /\ WaitGroup' = WaitGroup - 1
              /\ UNCHANGED <<Results, emitted, wjob>>
         ELSE /\ Len(Results) < resultsCap
              /\ Results' = Append(Results, wresult[w])
              /\ emitted' = [emitted EXCEPT ![wjob[w]] = @ + 1]
              /\ wjob' = [wjob EXCEPT ![w] = 0]
              /\ wpc' = [wpc EXCEPT ![w] = "range"]
              /\ UNCHANGED WaitGroup
    /\ reqAgent' = [reqAgent EXCEPT ![w] = 0]
    /\ UNCHANGED <<cfg, urls, browserVars, mainVars, Jobs, jobsCap, jobsClosed, resultsCap, closeCount,
                   joinPc, tickVars, fetchVars, pulled, inflight, jobHist, jobWaits, jobSlept,
                   jobAdmits, jobProxies>>

\* Pool.worker: the panic of Fetch (lastErr.Error() on a nil lastErr) unwinds
\* the worker, whose deferred WaitGroup.Done() runs
WorkerUnwind(w) ==
    /\ wpc[w] = "nilpanic"
    /\ Running
    /\ WaitGroup' = WaitGroup - 1
    /\ wpc' = [wpc EXCEPT ![w] = "unwound"]
    /\ UNCHANGED <<cfg, urls, browserVars, mainVars, chanVars, joinPc, tickVars, fetchVars,
                   wjob, ghostVars>>

\* the runtime, after the deferred calls of a panicking worker have run:
\* it prints the panic and exits, which ends every goroutine
PanicExit(w) ==
    /\ wpc[w] \in {"panic", "unwound"}
    /\ Running
    /\ wpc' = [wpc EXCEPT ![w] = "dead"]
    /\ UNCHANGED <<cfg, urls, browserVars, mainVars, chanVars, joinVars, tickVars, fetchVars,
                   wjob, ghostVars>>

\* ----------------------------------------------------------- specifications
MainStep ==
    \/ MainGetURLs
    \/ NewPool
    \/ StartNewTicker
    \/ StartSpawn
    \/ StartReturn
    \/ AddJobs
    \/ Collect
    \/ SaveToFile

FetchStep(w) ==
    \/ FetchStart(w)
    \/ FetchLoop(w)
    \/ FetchWake(w)
    \/ FetchAttempt(w)

BrowserStep(w) ==
    \/ BrowserStart(w)
    \/ BrowserTask(w)
    \/ BrowserSelect(w)

\* Pool.worker; its call p.Scraper.Fetch(url) is HTTPScraper.Fetch or
\* BrowserScraper.Fetch, whichever scraper.New built the pool with
WorkerStep(w) ==
    \/ WorkerRange(w)
    \/ WorkerGate(w)
    \/ FetchStep(w)
    \/ BrowserStep(w)
    \/ WorkerSend(w)
    \/ WorkerUnwind(w)

Next ==
    \/ MainStep
    \/ JoinClose
    \/ \E w \in WorkerIds : WorkerStep(w)
    \/ \E w \in WorkerIds : PanicExit(w)
    \/ TickerSend
    \/ TimeAdvance

Spec == Init /\ [][Next]_vars

\* the Go scheduler runs every goroutine that can run, the runtime delivers
\* due ticks, and time passes
Fairness ==
    /\ WF_vars(MainStep)
    /\ WF_vars(JoinClose)
    /\ \A w \in WorkerIds : WF_vars(WorkerStep(w))
    /\ \A w \in WorkerIds : WF_vars(PanicExit(w))
    /\ WF_vars(TickerSend)
    /\ WF_vars(TimeAdvance)

FairSpec == Spec /\ Fairness

\* HTTPScraper.Fetch called on its own: one caller, one url, any configuration
FetchInit ==
    /\ InitCommon
    /\ cfg \in FetchConfigs
    /\ urls \in [1..1 -> BOOLEAN]
    /\ mainPc = "fetch"
    /\ jobsCap = 0
    /\ resultsCap = 0
    /\ wpc = [w \in WorkerIds |-> IF w = 1 THEN "fetch" ELSE "unborn"]
    /\ wjob = [w \in WorkerIds |-> IF w = 1 THEN 1 ELSE 0]

FetchNext ==
    \/ \E w \in WorkerIds : FetchStep(w)
    \/ TimeAdvance

FetchSpec == FetchInit /\ [][FetchNext]_vars

\* HTTPScraper.Fetch called on its own with several user agents configured
IdentityInit ==
    /\ InitCommon
    /\ cfg \in IdentityConfigs
    /\ urls \in [1..1 -> BOOLEAN]
    /\ mainPc = "fetch"
    /\ jobsCap = 0
    /\ resultsCap = 0
    /\ wpc = [w \in WorkerIds |-> IF w = 1 THEN "fetch" ELSE "unborn"]
    /\ wjob = [w \in WorkerIds |-> IF w = 1 THEN 1 ELSE 0]

IdentitySpec == IdentityInit /\ [][FetchNext]_vars

\* two workers of one pool, each inside HTTPScraper.Fetch for its own job on
\* the one scraper they share
PairInit ==
    /\ InitCommon
    /\ cfg \in PairConfigs
    /\ urls \in [1..2 -> BOOLEAN]
    /\ mainPc = "fetch"
    /\ jobsCap = 0
    /\ resultsCap = 0
    /\ wpc = [w \in WorkerIds |-> IF w <= 2 THEN "fetch" ELSE "unborn"]
    /\ wjob = [w \in WorkerIds |-> IF w <= 2 THEN w ELSE 0]

PairSpec == PairInit /\ [][FetchNext]_vars

\* HTTPScraper.Fetch called on its own with an unvalidated retry budget
UncheckedInit ==
    /\ InitCommon
    /\ cfg \in UncheckedConfigs
    /\ urls \in [1..1 -> BOOLEAN]
    /\ mainPc = "fetch"
    /\ jobsCap = 0
    /\ resultsCap = 0
    /\ wpc = [w \in WorkerIds |-> IF w = 1 THEN "fetch" ELSE "unborn"]
    /\ wjob = [w \in WorkerIds |-> IF w = 1 THEN 1 ELSE 0]

UncheckedSpec == UncheckedInit /\ [][FetchNext]_vars

\* BrowserScraper.Fetch called on its own: one caller, one url
BrowserInit ==
    /\ InitCommon
    /\ cfg \in BrowserConfigs
    /\ urls \in [1..1 -> BOOLEAN]
    /\ mainPc = "fetch"
    /\ jobsCap = 0
    /\ resultsCap = 0
    /\ wpc = [w \in WorkerIds |-> IF w = 1 THEN "fetch" ELSE "unborn"]
    /\ wjob = [w \in WorkerIds |-> IF w = 1 THEN 1 ELSE 0]

BrowserNext ==
    \/ \E w \in WorkerIds : BrowserStep(w)
    \/ TimeAdvance

BrowserSpec == BrowserInit /\ [][BrowserNext]_vars

\* the caller of Fetch is scheduled and time passes; the browser tasks may
\* take for ever
BrowserFairness ==
    /\ \A w \in WorkerIds : WF_vars(BrowserStart(w)) /\ WF_vars(BrowserSelect(w))
    /\ WF_vars(TimeAdvance)

BrowserFairSpec == BrowserSpec /\ BrowserFairness

\* the configurations the main of src/main.go runs its pool with: the same
\* flags and the same three user agents, no proxies and no browser
InlineConfigs == {c \in Configs : ~c.BrowserEnabled}

\* the state of the main of src/main.go after flag parsing
InlineInit ==
    /\ InitCommon
    /\ cfg \in InlineConfigs
    /\ urls \in UrlLists
    /\ mainPc = "inline_geturls"
    /\ jobsCap = 0
    /\ resultsCap = 0
    /\ wpc = [w \in WorkerIds |-> "unborn"]
    /\ wjob = [w \in WorkerIds |-> 0]

InlineMainStep ==
    \/ InlineGetURLs
    \/ InlineMake
    \/ InlineNewTicker
    \/ InlineSpawn
    \/ InlineSend
    \/ Collect
    \/ SaveToFile
    \/ InlineReturn

InlineNext ==
    \/ InlineMainStep
    \/ JoinClose
    \/ \E w \in WorkerIds : WorkerStep(w)
    \/ \E w \in WorkerIds : PanicExit(w)
    \/ TickerSend
    \/ TimeAdvance

InlineSpec == InlineInit /\ [][InlineNext]_vars

\* the configurations the rate limiter of the inline pool is followed with:
\* one worker or two, every positive interval, one attempt for each job
GateConfigs ==
    {c \in InlineConfigs : c.Workers \in 1..2 /\ c.RateLimit >= 1 /\ c.MaxRetries = 0}

\* the url list the rate limiter is followed with: GateJobs urls that
\* http.NewRequest rejects, so that every fetch has the one outcome and only
\* the time it takes and the order of the workers vary
GateUrlLists == {[j \in 1..GateJobs |-> FALSE]}

\* the main of src/main.go with a batch of GateJobs urls
GateInit ==
    /\ InitCommon
    /\ cfg \in GateConfigs
    /\ urls \in GateUrlLists
    /\ mainPc = "inline_geturls"
    /\ jobsCap = 0
    /\ resultsCap = 0
    /\ wpc = [w \in WorkerIds |-> "unborn"]
    /\ wjob = [w \in WorkerIds |-> 0]

\* the worker of src/main.go; its fetchURL makes one attempt here
GateWorkerStep(w) ==
    \/ WorkerRange(w)
    \/ WorkerGate(w)
    \/ FetchStart(w)
    \/ FetchLoop(w)
    \/ FetchAttempt(w)
    \/ WorkerSend(w)

GateNext ==
    \/ InlineMainStep
    \/ JoinClose
    \/ \E w \in WorkerIds : GateWorkerStep(w)
    \/ TickerSend
    \/ TimeAdvance

GateSpec == GateInit /\ [][GateNext]_vars

InlineFairness ==
    /\ WF_vars(InlineMainStep)
    /\ WF_vars(JoinClose)
    /\ \A w \in WorkerIds : WF_vars(WorkerStep(w))
    /\ \A w \in WorkerIds : WF_vars(PanicExit(w))
    /\ WF_vars(TickerSend)
    /\ WF_vars(TimeAdvance)

InlineFairSpec == InlineSpec /\ InlineFairness

\* ------------------------------------------------------------------ claims
\* no attempt recorded in h succeeded (h may record no attempt at all)
AllFailed(h) == \A i \in 1..Len(h) : h[i] # "ok"

\* Fetch has returned its Result to worker w
Returned(w) == wpc[w] = "send"

\* C1: with k >= 1 urls, W >= 1 workers and a positive rate interval, after
\* NewPool, Start and AddJobs the pool eventually has sent exactly one Result
\* for each of the k jobs.
C1_EveryJobDelivered ==
    (k >= 1 /\ cfg.Workers >= 1 /\ cfg.RateLimit >= 1)
        => <>(\A j \in 1..k : emitted[j] = 1)

\* C2: once the jobs channel is closed and drained, eventually every worker
\* started by Start has exited, the join goroutine has closed Results and the
\* collector's loop in main has ended.
C2_PoolWindsDown ==
    (jobsClosed /\ Jobs = <<>>)
        ~> ( /\ \A w \in 1..cfg.Workers : wpc[w] = "exited"
             /\ closeCount = 1
             /\ mainPc \in {"save", "done"} )

\* worker w was never started, or has called Done: it has left its loop, or
\* a panic (of its send, or of its Fetch) has unwound it
CalledDone(w) == wpc[w] \in {"unborn", "exited", "panic", "unwound", "dead"}

\* Results is closed at most once, by the join goroutine, and only when every
\* started worker has called Done; no worker has sent on the closed channel
C3_SealInv ==
    /\ closeCount <= 1
    /\ closeCount > 0 =>
         /\ joinPc = "done"
         /\ WaitGroup = 0
         /\ \A w \in WorkerIds : CalledDone(w)
    /\ \A w \in WorkerIds : wpc[w] # "panic"

\* a step from a closed and drained Results leaves it closed and empty and
\* collects no Result
C3_SealStep ==
    (closeCount > 0 /\ Results = <<>>)
        => (Results' = <<>> /\ closeCount' = closeCount /\ allResults' = allResults)

\* C3: Results is closed at most once, only by the join goroutine and only
\* when every started worker has called Done; no worker sends on the closed
\* channel; and once the channel is closed and drained a further read
\* delivers nothing: it stays closed and empty and no Result is collected.
C3_SealedOnce == [](C3_SealInv) /\ [][C3_SealStep]_vars

\* the stream was closed after a worker sent a Result, and main has drained it
C3_Witness ==
    /\ closeCount = 1
    /\ Results = <<>>
    /\ allResults # <<>>
    /\ mainPc = "done"

\* C4: every job is received from Jobs by at most one worker, is held by at
\* most one worker, has at most one attempt running and at most one Result sent.
C4_OneWorkerPerJob ==
    \A j \in JobIds :
        /\ pulled[j] <= 1
        /\ Cardinality({w \in WorkerIds : wjob[w] = j}) <= 1
        /\ inflight[j] <= 1
        /\ emitted[j] <= 1

\* two workers have each pulled a job; one job has its Result sent
C4_Witness ==
    \E j1, j2 \in JobIds :
        /\ j1 # j2
        /\ emitted[j1] = 1
        /\ pulled[j2] = 1
        /\ \E w \in WorkerIds : wjob[w] = j2

\* C5: for every MaxRetries >= 0, when Fetch returns for a job that had no
\* successful attempt, exactly MaxRetries + 1 attempts were made, the Result
\* has a non-empty Err and its Retries field is MaxRetries + 1.
C5_ExhaustedBudget ==
    \A w \in WorkerIds :
        (cfg.MaxRetries >= 0 /\ Returned(w) /\ AllFailed(jobHist[wjob[w]])) =>
            /\ Len(jobHist[wjob[w]]) = cfg.MaxRetries + 1
            /\ wresult[w].Err # ""
            /\ wresult[w].Retries = cfg.MaxRetries + 1

\* C6: when Fetch returns for a job whose attempt i (0-based) was the first
\* to succeed, the Result has an empty Err and its Retries field is i + 1;
\* a job that succeeds on its first attempt has Retries = 1.
C6_SuccessCountsAttempts ==
    \A w \in WorkerIds :
        (Returned(w) /\ jobHist[wjob[w]] # <<>>
                     /\ jobHist[wjob[w]][Len(jobHist[wjob[w]])] = "ok") =>
            /\ wresult[w].Err = ""
            /\ wresult[w].Retries = Len(jobHist[wjob[w]])

\* C7: the duration slept before the attempt with 0-based index i is
\* i * RetryDelay, and a Fetch that returns after failing every attempt has
\* slept the sum of these: 3 * RetryDelay when MaxRetries = 2.
C7_LinearBackoff ==
    /\ \A j \in JobIds : \A i \in 1..Len(jobWaits[j]) :
           jobWaits[j][i] = (i - 1) * cfg.RetryDelay
    /\ \A w \in WorkerIds :
           (Returned(w) /\ jobHist[wjob[w]] # <<>> /\ AllFailed(jobHist[wjob[w]])) =>
               /\ jobSlept[wjob[w]] = SumSeq(jobWaits[wjob[w]])
               /\ cfg.MaxRetries = 2 => jobSlept[wjob[w]] = 3 * cfg.RetryDelay

\* Fetch has returned after failing three attempts, having slept 2 + 4
C7_Witness ==
    \E w \in WorkerIds :
        /\ Returned(w)
        /\ jobHist[wjob[w]] # <<>>
        /\ AllFailed(jobHist[wjob[w]])
        /\ cfg.MaxRetries = 2
        /\ cfg.RetryDelay = 2
        /\ jobWaits[wjob[w]] = <<0, 2, 4>>
        /\ jobSlept[wjob[w]] = 6

\* C8: the waits before successive retries of a job grow by a constant factor
\* greater than 1: each exceeds the one before, and consecutive ratios agree.
\* (jobWaits[j][1] is the 0 before the first attempt; retries start at 2.)
C8_ExponentialBackoff ==
    \A j \in JobIds : \A i \in 2..Len(jobWaits[j]) :
        (cfg.RetryDelay > 0 /\ i + 2 <= Len(jobWaits[j])) =>
            /\ jobWaits[j][i + 1] > jobWaits[j][i]
            /\ jobWaits[j][i + 1] * jobWaits[j][i + 1] = jobWaits[j][i] * jobWaits[j][i + 2]

\* C9: any two consecutive receives from rateLimiter.C are at least RateLimit
\* apart.  (It holds, but of no pair: C9_TwoAdmissions is unreachable, since
\* Start stops the ticker before AddJobs puts the first job in the channel.)
C9_MinGap ==
    \A n \in 1..Len(admits) - 1 :
        admits[n + 1] = Horizon \/ admits[n + 1] - admits[n] >= cfg.RateLimit

\* two workers have been admitted by the rate limiter
C9_TwoAdmissions == Len(admits) >= 2

\* C10: counting the receives from rateLimiter.C of all workers in order, the
\* N-th happens no earlier than (N-1) * RateLimit after NewTicker.
C10_NthAdmission ==
    \A n \in 1..Len(admits) :
        admits[n] >= (n - 1) * cfg.RateLimit

\* two workers share the rate limiter, and the third admission has happened,
\* two intervals or more after NewTicker
C10_Witness ==
    /\ cfg.Workers = 2
    /\ Len(admits) = 3
    /\ admits[3] >= 2 * cfg.RateLimit
    /\ \A w \in 1..2 : wjob[w] # 0

\* C11: every attempt of a job, retries included, starts after a receive from
\* rateLimiter.C made for it: a job never has more attempts started than
\* receives made for it, and when its Result is sent the two numbers agree.
C11_AdmissionPerAttempt ==
    \A j \in JobIds :
        /\ Len(jobHist[j]) + inflight[j] <= jobAdmits[j]
        /\ emitted[j] = 1 => jobAdmits[j] = Len(jobHist[j])

\* a worker exits only at the end of its range over the closed, empty Jobs,
\* and Results is closed only when every started worker has exited that way
C12_ExitInv ==
    /\ \A w \in WorkerIds : wpc[w] = "exited" => (jobsClosed /\ Jobs = <<>>)
    /\ closeCount > 0 => \A w \in WorkerIds : wpc[w] \in {"unborn", "exited"}

\* a worker that leaves its send of a failure Result has put it on Results,
\* left Results open and is back at the range over Jobs
C12_SendStep ==
    \A w \in WorkerIds :
        (wpc[w] = "send" /\ wresult[w].Err # "" /\ wpc'[w] # "send") =>
            /\ wpc'[w] = "range"
            /\ Results' = Append(Results, wresult[w])
            /\ closeCount' = closeCount
            /\ WaitGroup' = WaitGroup

\* C12: a failure Result never stops the batch: the worker that sends it goes
\* back to pull from Jobs, it does not exit and Results is not closed because
\* of it; a worker exits only when Jobs is closed and empty, whatever the
\* outcomes of its jobs were.
C12_FailureKeepsWorker == [](C12_ExitInv) /\ [][C12_SendStep]_vars

\* C13: with a rate interval of zero Pool.Start completes normally (it does
\* not panic).
C13_ZeroRateStarts == cfg.RateLimit = 0 => mainPc # "panic"

\* C14: with a worker count below 1 the run is aborted before the pool starts:
\* no ticker is created, no worker loop runs and no job is enqueued.
C14_WorkersValidated ==
    cfg.Workers < 1 =>
        /\ tickState = "none"
        /\ Jobs = <<>>
        /\ mainPc \notin {"spawn", "stop", "addjobs", "collect", "save", "done"}

\* C15: with an empty url list main stops with a fatal error before NewPool:
\* no channel is made, Start and AddJobs are not reached.
C15_EmptyListFatal ==
    k = 0 =>
        /\ mainPc \in {"geturls", "fatal"}
        /\ tickState = "none"
        /\ joinPc = "none"
        /\ ~jobsClosed

\* main has stopped on the empty url list
C15_Witness == k = 0 /\ mainPc = "fatal"

\* C16: when the collector's loop has ended, successCount + failureCount is
\* the number of collected Results, which is the number k of submitted jobs,
\* and failureCount counts exactly the Results with a non-empty Err.
C16_TallyComplete ==
    mainPc \in {"save", "done"} =>
        /\ successCount + failureCount = Len(allResults)
        /\ Len(allResults) = k
        /\ failureCount =
              Cardinality({i \in 1..Len(allResults) : allResults[i].Err # ""})

\* C17: with proxies enabled, Rotate set and at least two proxies in the list,
\* a job whose first attempt failed and whose second attempt succeeded had a
\* different proxy on the transport for the second attempt than for the first.
C17_RotationChangesProxy ==
    \A j \in JobIds :
        ( /\ cfg.ProxyEnabled /\ cfg.Rotate /\ Len(cfg.ProxyList) >= 2
          /\ Len(jobHist[j]) >= 2
          /\ jobHist[j][1] # "ok"
          /\ jobHist[j][2] = "ok" )
            => jobProxies[j][2] # jobProxies[j][1]

\* while an attempt runs, its index (retries) is the number of attempts made
\* before it, and no job has more than MaxRetries + 1 attempts
C18_IndexInv ==
    /\ \A w \in WorkerIds :
          wpc[w] = "attempt" => retries[w] = Len(jobHist[wjob[w]])
    /\ \A j \in JobIds : Len(jobHist[j]) <= cfg.MaxRetries + 1

\* an attempt that fails raises the index by exactly 1; one that succeeds
\* leaves it
C18_IndexStep ==
    \A w \in WorkerIds :
        wpc[w] = "attempt" =>
            \/ retries'[w] = retries[w]
            \/ wpc'[w] = "loop" /\ retries'[w] = retries[w] + 1

\* C18: the attempt index of a job starts at 0 and grows by exactly 1 after
\* each failed attempt, and no job is attempted more than MaxRetries + 1 times.
C18_AttemptIndex == [](C18_IndexInv) /\ [][C18_IndexStep]_vars

\* the last attempt the budget allows is running, with index MaxRetries = 3
C18_Witness ==
    \E w \in WorkerIds :
        /\ wpc[w] = "attempt"
        /\ cfg.MaxRetries = 3
        /\ retries[w] = 3

\* C19: a Result whose Retries exceeds MaxRetries is a failure whose last
\* attempt failed; no success Result has Retries > MaxRetries.
C19_OverBudgetIsFailure ==
    \A w \in WorkerIds :
        (Returned(w) /\ wresult[w].Retries > cfg.MaxRetries) =>
            /\ wresult[w].Err # ""
            /\ jobHist[wjob[w]] # <<>>
            /\ jobHist[wjob[w]][Len(jobHist[wjob[w]])] # "ok"

\* SaveToFile runs at most once, and only when Results is closed and empty
\* and every Result that was sent has been collected
C20_SaveInv ==
    /\ saved <= 1
    /\ saved = 1 =>
         /\ closeCount > 0
         /\ Results = <<>>
         /\ Len(allResults) = SumSeq([j \in JobIds |-> emitted[j]])

\* C20: SaveToFile is invoked exactly once per batch (with at least one url,
\* one worker and a positive rate interval), only after Results is closed and
\* drained, and with every collected Result.
C20_SavedOnce ==
    /\ [](C20_SaveInv)
    /\ (k >= 1 /\ cfg.Workers >= 1 /\ cfg.RateLimit >= 1) => <>(saved = 1)

\* C22: every failed attempt, whatever its kind, raises retries by one; while
\* the index of the failed attempt is below MaxRetries Fetch does not return
\* but retries, and the wait before the retry is RetryWait of the number of
\* failures so far, the same for every kind of failure.
C22_FailureKindBlind ==
    \A w \in WorkerIds :
        (wjob[w] # 0 /\ wpc[w] \in {"loop", "sleep", "attempt", "send"}) =>
            LET h == jobHist[wjob[w]]
                failed == Cardinality({i \in 1..Len(h) : h[i] # "ok"})
            IN  /\ h # <<>> => retries[w] = failed
                /\ \A i \in 1..Len(h) :
                      (h[i] # "ok" /\ i <= cfg.MaxRetries) =>
                          /\ ~(Returned(w) /\ Len(h) = i)
                          /\ Len(jobWaits[wjob[w]]) > i =>
                                jobWaits[wjob[w]][i + 1] = RetryWait(cfg.RetryDelay, i)

\* Fetch has returned after a transport error, a non-200 status and a decode
\* error, one after the other, with MaxRetries = 2
C22_Witness ==
    \E w \in WorkerIds :
        /\ Returned(w)
        /\ cfg.MaxRetries = 2
        /\ cfg.RetryDelay = 1
        /\ jobHist[wjob[w]] = <<"transport", "status", "decode">>
        /\ jobWaits[wjob[w]] = <<0, 1, 2>>

\* C24: Fetch returns a failure Result only after MaxRetries + 1 attempts were
\* made and failed, and a success Result only after an attempt succeeded; in
\* particular no Result comes back with zero attempts made.
C24_ResultAfterBudget ==
    \A w \in WorkerIds :
        Returned(w) =>
            LET h == jobHist[wjob[w]]
            IN  /\ h # <<>>
                /\ wresult[w].Err # "" => (AllFailed(h) /\ Len(h) = cfg.MaxRetries + 1)
                /\ wresult[w].Err = "" => h[Len(h)] = "ok"

\* C26: the ProxyUsed of the Result Fetch returns is the proxy that was on
\* the transport during the last attempt.
C26_ProxyUsedIsTransport ==
    \A w \in WorkerIds :
        (Returned(w) /\ jobHist[wjob[w]] # <<>>) =>
            wresult[w].ProxyUsed = jobProxies[wjob[w]][Len(jobProxies[wjob[w]])]

\* rotation applies: proxies are enabled, Rotate is set and the list has more
\* than one entry
RotationApplies == cfg.ProxyEnabled /\ cfg.Rotate /\ Len(cfg.ProxyList) > 1

\* a step between the attempts of a Fetch leaves the transport's proxy alone
C27_ProxyStep ==
    \A w \in WorkerIds :
        (wpc[w] \in {"loop", "sleep", "attempt"} /\ ~RotationApplies) =>
            transportProxy'[w] = transportProxy[w]

\* every attempt made went through the first proxy of the list
C27_FirstProxyInv ==
    (cfg.ProxyEnabled /\ Len(cfg.ProxyList) >= 1 /\ ~RotationApplies) =>
        \A j \in JobIds : \A i \in 1..Len(jobProxies[j]) : jobProxies[j][i] = 1

\* C27: with proxies enabled and rotation not applying (Rotate off, or one
\* proxy in the list) every attempt of every job goes through the first
\* proxy of the list, and the transport's proxy does not change between the
\* attempts of a job.
C27_FirstProxyOnly == [](C27_FirstProxyInv) /\ [][C27_ProxyStep]_vars

\* two proxies configured, Rotate off: both attempts of a job used the first
C27_Witness ==
    /\ cfg.ProxyEnabled
    /\ ~cfg.Rotate
    /\ Len(cfg.ProxyList) = 2
    /\ \E j \in JobIds : jobProxies[j] = <<1, 1>>

\* the receives from rateLimiter.C, and the tick still in the channel, are
\* each a tick the ticker has sent
C21_TicksInv == Len(admits) + tickBuf <= ticksSent

\* a step that lets a worker past the rate limiter takes the tick out of the
\* channel and lets no other worker past
C21_GateStep ==
    \A w \in WorkerIds :
        (wpc[w] = "gate" /\ wpc'[w] # "gate") =>
            /\ tickBuf = 1
            /\ tickBuf' = 0
            /\ \A v \in WorkerIds \ {w} : wpc'[v] = wpc[v]

\* C21: each tick of the shared ticker lets at most one worker past the rate
\* limiter: there are never more receives from rateLimiter.C than ticks sent,
\* and the step that admits a worker consumes the tick and admits no other.
C21_OneWorkerPerTick == [](C21_TicksInv) /\ [][C21_GateStep]_vars

\* two workers waited at the rate limiter for the one tick sent; one of them
\* has received it, the other is still waiting
C21_Witness ==
    \E w1, w2 \in WorkerIds :
        /\ w1 # w2
        /\ wpc[w1] \in {"fetch", "loop", "sleep", "attempt", "send"}
        /\ wpc[w2] = "gate"
        /\ ticksSent = 1
        /\ Len(admits) = 1

\* C30: a worker waiting at the rate limiter when (or after) the ticker has
\* been stopped does not wait forever.
C30_StopReleasesWaiters ==
    \A w \in WorkerIds :
        (tickState = "stopped" /\ wpc[w] = "gate") ~> (wpc[w] # "gate")

\* C23: with the browser scraper, when Fetch returns for a job all of whose
\* attempts failed, MaxRetries + 1 attempts were made, as with HTTPScraper.
C23_BrowserRetryBudget ==
    \A w \in WorkerIds :
        (New = "browser" /\ Returned(w) /\ jobHist[wjob[w]] # <<>>
                         /\ AllFailed(jobHist[wjob[w]])) =>
            /\ Len(jobHist[wjob[w]]) = cfg.MaxRetries + 1
            /\ wresult[w].Err # ""

\* C25: a Result Fetch returns never has both a non-empty Err and a
\* non-empty Content.
C25_PayloadOrError ==
    \A w \in WorkerIds :
        Returned(w) => ~(wresult[w].Err # "" /\ wresult[w].Content # "")

\* rotation is off in every reading: proxies are disabled or Rotate is not
\* set, or there is neither more than one proxy nor more than one user agent
C28_RotationOff ==
    \/ ~(cfg.ProxyEnabled /\ cfg.Rotate)
    \/ (Len(cfg.ProxyList) <= 1 /\ cfg.UserAgents <= 1)

\* with rotation off every attempt of a job had the job's first proxy
C28_ProxyKept ==
    C28_RotationOff =>
        \A j \in JobIds : \A i \in 1..Len(jobProxies[j]) :
            jobProxies[j][i] = jobProxies[j][1]

\* with rotation off a retry puts the user agent of the attempt before it on
\* its request
C28_AgentKept ==
    C28_RotationOff =>
        \A w \in WorkerIds :
            (wpc[w] = "attempt" /\ retries[w] >= 1 /\ wpc'[w] # "attempt")
                => reqAgent'[w] = reqAgent[w]

\* C28: when rotation does not apply, every retry of a job has the user
\* agent and the proxy of the job's first attempt.
C28_IdentityKept == [](C28_ProxyKept) /\ [][C28_AgentKept]_vars

\* a Fetch whose deadline has passed with nothing in errChan returns a
\* failure Result
C29_ExpiredReturnsFailure ==
    \A w \in WorkerIds :
        (wpc[w] = "select" /\ timer[w] = 0 /\ errChan[w] = <<>>)
            ~> (Returned(w) /\ wresult[w].Err # "")

\* C29: BrowserScraper.Fetch never hangs: a call waiting in its select
\* returns, and when the deadline passes before the browser tasks have
\* delivered an outcome it returns a failure Result.
C29_DeadlineUnblocks ==
    /\ \A w \in WorkerIds : (wpc[w] = "select") ~> Returned(w)
    /\ C29_ExpiredReturnsFailure

\* C32: neither channel ever holds more than len(urls) items, and no send on
\* them has to wait: AddJobs always finds room in Jobs, and a worker that has
\* a Result to send always finds room in Results.
C32_NoSendBlocks ==
    /\ Len(Jobs) <= k
    /\ Len(Results) <= k
    /\ (mainPc = "addjobs" /\ addI < k) => Len(Jobs) < jobsCap
    /\ \A w \in WorkerIds : wpc[w] = "send" => Len(Results) < resultsCap

\* AddJobs has enqueued a batch of two and closed Jobs before any worker
\* received a job
C32_Witness ==
    /\ k = 2
    /\ Len(Jobs) = 2
    /\ jobsClosed
    /\ \A j \in JobIds : pulled[j] = 0

\* the jobs received from Jobs whose Result has not been sent
Outstanding == {j \in JobIds : pulled[j] > emitted[j]}

\* C33: the number of jobs received from Jobs whose Result has not yet been
\* sent is at most the configured number of workers.
C33_OutstandingAtMostW == Cardinality(Outstanding) <= cfg.Workers

\* the one worker holds a job while another job waits in Jobs
C33_Witness ==
    /\ cfg.Workers = 1
    /\ Cardinality(Outstanding) = 1
    /\ Jobs # <<>>

\* the status an attempt with outcome o received, 0 when no response arrived
StatusReceived(o) ==
    CASE o = "status" -> ServerError
      [] o \in {"decode", "ok"} -> StatusOK
      [] OTHER -> 0

\* C34: the StatusCode of a failure Result is the status received on the
\* last attempt, 0 when that attempt received no response.
C34_StatusOfLastAttempt ==
    \A w \in WorkerIds :
        (Returned(w) /\ wresult[w].Err # "" /\ jobHist[wjob[w]] # <<>>) =>
            wresult[w].StatusCode =
                StatusReceived(jobHist[wjob[w]][Len(jobHist[wjob[w]])])

\* C35: when the retry loop of Fetch ends without a success, at least one
\* attempt was made and failed and lastErr is set, so lastErr.Error() does
\* not panic.
C35_LastErrSet ==
    \A w \in WorkerIds :
        /\ (wpc[w] = "loop" /\ ~LoopContinues(retries[w], cfg.MaxRetries)) =>
              (lastErr[w] # "" /\ jobHist[wjob[w]] # <<>> /\ AllFailed(jobHist[wjob[w]]))
        /\ wpc[w] # "nilpanic"

\* the locals of worker w's Fetch call: retry counter, last error, the proxy
\* of its transport and the proxy it reports
FetchLocals(w) == <<retries[w], lastErr[w], transportProxy[w], proxyUsed[w]>>

\* C31: retry state is worker-local.  Whenever the retry counter, last error,
\* transport or selected proxy of one Fetch call changes, that call took the
\* step, and the same step leaves those four of every other Fetch call, and
\* the position of every other call, as they were; so a rotation for one job
\* never changes the proxy of another job's concurrent attempt.
C31_WorkerLocal ==
    [][\A w \in WorkerIds :
          FetchLocals(w)' # FetchLocals(w) =>
              /\ wpc'[w] # wpc[w]
              /\ \A v \in WorkerIds \ {w} :
                    /\ FetchLocals(v)' = FetchLocals(v)
                    /\ wpc'[v] = wpc[v]]_vars

\* one call has rotated to the second proxy for its retry while the other
\* call's first attempt is under way on the first proxy
C31_Witness ==
    /\ wpc[1] = "attempt" /\ retries[1] = 1 /\ transportProxy[1] = 2
    /\ wpc[2] = "attempt" /\ retries[2] = 0 /\ transportProxy[2] = 1

\* what main has observed of a finished batch: the result stream is sealed
\* and drained, and main has collected exactly one Result for each job
BatchObserved ==
    /\ closeCount = 1
    /\ Results = <<>>
    /\ Len(allResults) = k
    /\ \A j \in 1..k : \E i \in 1..Len(allResults) : allResults[i].URL = j

\* C36: the pool of NewPool, Start and AddJobs is observationally equivalent
\* to the inline pool of src/main.go.  For a configuration of the inline pool
\* with at least one url, one worker, a positive rate interval and a retry
\* budget that is not negative, the inline pool always reaches BatchObserved,
\* so the refactored pool must: main eventually holds one Result for each
\* job from a sealed result stream.
C36_SameAsInline ==
    (cfg \in InlineConfigs /\ cfg.MaxRetries >= 0
        /\ k >= 1 /\ cfg.Workers >= 1 /\ cfg.RateLimit >= 1) => <>BatchObserved
====
